---- MODULE Spec2Model ----
(***************************************************************************)
(* A model of databroker-pack: the batch exporters export_uids and         *)
(* export_catalog, the run exporter export_run, the external-file manifest *)
(* writer, the external-file copier, the catalog descriptor writers        *)
(* (src/databroker_pack/_pack.py) and the command line entry point         *)
(* (src/databroker_pack/commandline/pack.py).                              *)
(***************************************************************************)
EXTENDS Naturals, Sequences, FiniteSets, TLC

(***************************************************************************)
(* Bounds of the model.                                                    *)
(***************************************************************************)
\* Longest list of uids handed to export_uids.
MaxUids == 3
\* Most calls of write_external_files_manifest on one Manager.
MaxManifestCalls == 2
\* Most calls of copy_external_files.
MaxCopyCalls == 2
\* Most calls of the catalog descriptor writers on one Manager.
MaxCatalogCalls == 2

VARIABLES
    \* ---- batch export (export_uids / export_catalog / export_run) ----
    variant,            \* "uids" (export_uids) or "catalog" (export_catalog)
    strict,             \* keyword argument strict
    external,           \* keyword argument external: "None", "fill", "omit", "ignore"
    dry_run,            \* keyword argument dry_run
    uids,               \* the uids the for loop walks, in order
    i,                  \* position of the for loop in uids (1-based)
    pc,                 \* control point of the batch exporter / export_run
    k,                  \* export_run: position in run.canonical(fill="no")
    resources,          \* export_run: local list resources
    files,              \* export_run: local mapping files (root -> set of paths)
    exc,                \* export_run: an exception is propagating
    open_fillers,       \* Fillers entered and not yet exited (by invocation number)
    open_serializers,   \* Serializers entered and not yet exited
    accumulated_files,  \* batch: accumulated_files
    failures,           \* batch: failures
    serialized,         \* every document a Serializer was called with, by invocation
    filled,             \* number of documents passed through a Filler
    enumerated,         \* resources get_file_list was called with, by invocation
    invoked,            \* positions of uids for which export_run was invoked
    outcomes,           \* how each attempt ended: returned files, or raised
    \* ---- write_external_files_manifest ----
    manifests,          \* the Manager's "manifest" files: name -> content
    manifest_calls,     \* the calls made so far: root and files of each
    \* ---- copy_external_files ----
    filesystem,         \* the filesystem: path -> content of the file there
    dirs,               \* the directories os.makedirs created
    copy_calls,         \* the calls made so far, each with how it ended
    \* ---- write_msgpack_catalog_file / write_jsonl_catalog_file ----
    catalog_file,       \* the Manager's catalog.yml: Absent or what was dumped
    catalog_calls,      \* the calls made so far, each with how it ended
    \* ---- commandline/pack.py ----
    cli,                \* the parsed command line and what it finds
    cli_pc,             \* "start" or "exited"
    cli_out             \* exit code, error, whether an export ran, catalog.yml written

batchVars == << variant, strict, external, dry_run, uids, i, pc, k, resources,
                files, exc, open_fillers, open_serializers, accumulated_files,
                failures, serialized, filled, enumerated, invoked, outcomes >>

manifestVars == << manifests, manifest_calls >>

copyVars == << filesystem, dirs, copy_calls >>

catalogVars == << catalog_file, catalog_calls >>

cliVars == << cli, cli_pc, cli_out >>

nonBatchVars == << manifestVars, copyVars, catalogVars, cliVars >>

vars == << batchVars, manifestVars, copyVars, catalogVars, cliVars >>

(***************************************************************************)
(* The source catalog: two runs, "abc" and "def", as (name, doc) pairs of  *)
(* run.canonical(fill="no").  Resource documents carry a root; r1 and r2   *)
(* share a root inside one run, r3 shares it across runs, and r4 is a      *)
(* resource whose file list is empty.                                      *)
(***************************************************************************)
Document(name, id, root) ==
    [name |-> name, id |-> id, root |-> root, filled |-> FALSE]

Canonical(uid) ==
    CASE uid = "abc" -> << Document("start", "s1", "-"),
                           Document("resource", "r1", "/data/a"),
                           Document("resource", "r2", "/data/a"),
                           Document("event", "e1", "-"),
                           Document("stop", "p1", "-") >>
      [] uid = "def" -> << Document("start", "s2", "-"),
                           Document("resource", "r3", "/data/a"),
                           Document("resource", "r4", "/data/b"),
                           Document("event", "e2", "-") >>

CatalogUids == {"abc", "def"}

\* A uid the source catalog does not know: source_catalog[uid] raises KeyError.
UnknownUids == {"zzz"}

\* run.get_file_list(resource)
GetFileList(resource) ==
    CASE resource.id = "r1" -> {"/data/a/1.h5", "/data/a/2.h5"}
      [] resource.id = "r2" -> {"/data/a/2.h5", "/data/a/3.h5"}
      [] resource.id = "r3" -> {"/data/a/3.h5", "/data/a/4.h5"}
      [] resource.id = "r4" -> {}

ExternalModes == {"None", "fill", "omit", "ignore"}

EmptyFiles == [r \in {} |-> {}]

\* All sequences over S of length at most n.
SeqsUpTo(S, n) == UNION {[1..m -> S] : m \in 0..n}

\* source_catalog.items(): the runs of a (sub-)catalog, in catalog order.
CatalogItems ==
    {<<>>, <<"abc">>, <<"def">>, <<"abc", "def">>}

(***************************************************************************)
(* export_run                                                              *)
(***************************************************************************)
\* event_model.Filler.__call__: external references resolved.
Filler(doc) == [doc EXCEPT !.filled = TRUE]

\* line 216-217: if name == "resource": resources.append(doc)
RecordResource(rs, doc) ==
    IF doc.name = "resource" THEN Append(rs, doc) ELSE rs

\* A truthiness test, "if external:", in place of the comparison.
ShouldFillNotNone(ext) == ext # "None"

\* line 218: if external == "fill"
ShouldFill(ext) == ext = "fill"

\* A serializer call that ignores dry_run.
ShouldSerializeAlways(dry) == TRUE

\* line 220: if not dry_run
ShouldSerialize(dry) == ~dry

\* Enumeration skipped only when the data is filled.
ShouldEnumerateUnlessFill(ext) == ext # "fill"

\* line 223: if external is None
ShouldEnumerate(ext) == ext = "None"

\* line 225: files[resource["root"]].update(run.get_file_list(resource))
UpdateFiles(fs, resource) ==
    [r \in DOMAIN fs \cup {resource.root} |->
        (IF r \in DOMAIN fs THEN fs[r] ELSE {})
            \cup (IF r = resource.root THEN GetFileList(resource) ELSE {})]

\* lines 224-225 over the first n recorded resources.
RECURSIVE EnumerateFirst(_, _)
EnumerateFirst(rs, n) ==
    IF n = 0 THEN EmptyFiles
    ELSE UpdateFiles(EnumerateFirst(rs, n - 1), rs[n])

\* A Serializer closed on the normal path only (no with block).
SerializerExitLeak(open, id, raising) == IF raising THEN open ELSE open \ {id}

\* Leaving "with serializer_class(directory) as serializer": __exit__ closes it,
\* whether or not an exception is propagating.
SerializerExit(open, id, raising) == open \ {id}

\* Leaving "with event_model.Filler(...) as filler".
FillerExit(open, id, raising) == open \ {id}

(***************************************************************************)
(* export_uids / export_catalog                                            *)
(***************************************************************************)
\* A merge that assigns the run's set instead of updating the accumulated one.
MergeFilesAssign(acc, fs) ==
    [r \in DOMAIN acc \cup DOMAIN fs |->
        IF r \in DOMAIN fs THEN fs[r] ELSE acc[r]]

\* A merge that keeps only the roots of the run just exported.
MergeFilesOnlyNew(acc, fs) ==
    [r \in DOMAIN fs |-> (IF r \in DOMAIN acc THEN acc[r] ELSE {}) \cup fs[r]]

\* lines 87-88, 154-155: accumulated_files[root].update(set_)
MergeFiles(acc, fs) ==
    [r \in DOMAIN acc \cup DOMAIN fs |->
        (IF r \in DOMAIN acc THEN acc[r] ELSE {})
            \cup (IF r \in DOMAIN fs THEN fs[r] ELSE {})]

\* An except clause that never re-raises.
ReraiseNever(s) == FALSE

\* lines 91-92, 158-159: if strict: raise
Reraise(s) == s

BatchInit ==
    /\ variant \in {"uids", "catalog"}
    /\ strict \in BOOLEAN
    /\ external \in ExternalModes
    /\ dry_run \in BOOLEAN
    /\ uids \in (IF variant = "uids"
                 THEN SeqsUpTo(CatalogUids \cup UnknownUids, MaxUids)
                 ELSE CatalogItems)
    /\ i = 1
    /\ pc = "for"
    /\ k = 0
    /\ resources = <<>>
    /\ files = EmptyFiles
    /\ exc = FALSE
    /\ open_fillers = {}
    /\ open_serializers = {}
    /\ accumulated_files = EmptyFiles
    /\ failures = <<>>
    /\ serialized = <<>>
    /\ filled = 0
    /\ enumerated = <<>>
    /\ invoked = <<>>
    /\ outcomes = <<>>

Outcome(idx, raised, fs) ==
    [idx |-> idx, uid |-> uids[idx], raised |-> raised, files |-> fs]

\* "for uid in uids" finds the list exhausted: return accumulated_files, failures.
Return ==
    /\ pc = "for"
    /\ i > Len(uids)
    /\ pc' = "returned"
    /\ UNCHANGED nonBatchVars
    /\ UNCHANGED << variant, strict, external, dry_run, uids, i, k, resources,
                    files, exc, open_fillers, open_serializers,
                    accumulated_files, failures, serialized, filled,
                    enumerated, invoked, outcomes >>

\* export_uids line 78: run = source_catalog[uid] raises for an unknown uid,
\* inside the try, before export_run is called.
LookupFails ==
    /\ pc = "for"
    /\ i <= Len(uids)
    /\ uids[i] \notin CatalogUids
    /\ pc' = "except"
    /\ outcomes' = Append(outcomes, Outcome(i, TRUE, EmptyFiles))
    /\ UNCHANGED nonBatchVars
    /\ UNCHANGED << variant, strict, external, dry_run, uids, i, k, resources,
                    files, exc, open_fillers, open_serializers,
                    accumulated_files, failures, serialized, filled,
                    enumerated, invoked >>

\* export_run is called (lines 79, 146) and runs to the head of its for loop:
\* resources = [], files = defaultdict(set), the Filler and the Serializer are
\* entered (lines 208-214).
EnterExportRun ==
    /\ pc = "for"
    /\ i <= Len(uids)
    /\ uids[i] \in CatalogUids
    /\ invoked' = Append(invoked, i)
    /\ resources' = <<>>
    /\ files' = EmptyFiles
    /\ exc' = FALSE
    /\ k' = 1
    /\ open_fillers' = open_fillers \cup {i}
    /\ open_serializers' = open_serializers \cup {i}
    /\ pc' = "iter"
    /\ UNCHANGED nonBatchVars
    /\ UNCHANGED << variant, strict, external, dry_run, uids, i,
                    accumulated_files, failures, serialized, filled,
                    enumerated, outcomes >>

\* The generator run.canonical(fill="no") is exhausted: the for loop of
\* line 215 ends and control leaves the Serializer's with block.
LoopEnds ==
    /\ pc = "iter"
    /\ k > Len(Canonical(uids[i]))
    /\ pc' = "exit_serializer"
    /\ UNCHANGED nonBatchVars
    /\ UNCHANGED << variant, strict, external, dry_run, uids, i, k, resources,
                    files, exc, open_fillers, open_serializers,
                    accumulated_files, failures, serialized, filled,
                    enumerated, invoked, outcomes >>

\* The places of one loop iteration (lines 215-222) that can raise.
LoopOutcomes(ext, dry) ==
    {"ok", "canonical_raises"}
        \cup (IF ShouldFill(ext) THEN {"filler_raises"} ELSE {})
        \cup (IF ShouldSerialize(dry) THEN {"serializer_raises"} ELSE {})

\* One iteration of the loop of lines 215-222.
LoopBody ==
    /\ pc = "iter"
    /\ k <= Len(Canonical(uids[i]))
    /\ \E outcome \in LoopOutcomes(external, dry_run) :
        LET doc == Canonical(uids[i])[k]
            fill == ShouldFill(external) /\ outcome # "canonical_raises"
            out == IF ShouldFill(external) THEN Filler(doc) ELSE doc
        IN  /\ resources' = IF outcome = "canonical_raises" THEN resources
                            ELSE RecordResource(resources, doc)
            /\ filled' = IF fill /\ outcome # "filler_raises"
                         THEN filled + 1 ELSE filled
            /\ serialized' = IF outcome = "ok" /\ ShouldSerialize(dry_run)
                             THEN Append(serialized,
                                         [idx |-> i, uid |-> uids[i], doc |-> out])
                             ELSE serialized
            /\ exc' = (outcome # "ok")
            /\ k' = IF outcome = "ok" THEN k + 1 ELSE k
            /\ pc' = IF outcome = "ok" THEN "iter" ELSE "exit_serializer"
    /\ UNCHANGED nonBatchVars
    /\ UNCHANGED << variant, strict, external, dry_run, uids, i, files,
                    open_fillers, open_serializers, accumulated_files,
                    failures, enumerated, invoked, outcomes >>

\* Control leaves "with serializer_class(directory) as serializer" (line 213),
\* normally or by an exception; then line 223 decides on enumeration.
LeaveSerializer ==
    /\ pc = "exit_serializer"
    /\ open_serializers' = SerializerExit(open_serializers, i, exc)
    /\ pc' = IF ~exc /\ ShouldEnumerate(external) THEN "enum" ELSE "exit_filler"
    /\ UNCHANGED nonBatchVars
    /\ UNCHANGED << variant, strict, external, dry_run, uids, i, k, resources,
                    files, exc, open_fillers, accumulated_files, failures,
                    serialized, filled, enumerated, invoked, outcomes >>

\* Lines 224-225: the file lists of the recorded resources; get_file_list may
\* raise at resource number fail (fail = 0: it never raises).
EnumerateFiles ==
    /\ pc = "enum"
    /\ \E fail \in 0..Len(resources) :
        LET done == IF fail = 0 THEN Len(resources) ELSE fail - 1
            asked == IF fail = 0 THEN Len(resources) ELSE fail
        IN  /\ files' = EnumerateFirst(resources, done)
            /\ enumerated' = enumerated \o
                    [n \in 1..asked |-> [idx |-> i, id |-> resources[n].id]]
            /\ exc' = (fail # 0)
    /\ pc' = "exit_filler"
    /\ UNCHANGED nonBatchVars
    /\ UNCHANGED << variant, strict, external, dry_run, uids, i, k, resources,
                    open_fillers, open_serializers, accumulated_files,
                    failures, serialized, filled, invoked, outcomes >>

\* Control leaves "with event_model.Filler(...) as filler" (line 212) and
\* export_run returns dict(files) (line 226) or lets the exception out.
LeaveFiller ==
    /\ pc = "exit_filler"
    /\ open_fillers' = FillerExit(open_fillers, i, exc)
    /\ outcomes' = Append(outcomes,
                          Outcome(i, exc, IF exc THEN EmptyFiles ELSE files))
    /\ pc' = IF exc THEN "except" ELSE "merge"
    /\ UNCHANGED nonBatchVars
    /\ UNCHANGED << variant, strict, external, dry_run, uids, i, k, resources,
                    files, exc, open_serializers, accumulated_files, failures,
                    serialized, filled, enumerated, invoked >>

\* Lines 87-88 / 154-155, then progress.update() and the next uid.
Merge ==
    /\ pc = "merge"
    /\ accumulated_files' = MergeFiles(accumulated_files, files)
    /\ i' = i + 1
    /\ pc' = "for"
    /\ UNCHANGED nonBatchVars
    /\ UNCHANGED << variant, strict, external, dry_run, uids, k, resources,
                    files, exc, open_fillers, open_serializers, failures,
                    serialized, filled, enumerated, invoked, outcomes >>

\* Lines 89-94 / 156-161: except Exception.
Except ==
    /\ pc = "except"
    /\ IF Reraise(strict)
       THEN /\ pc' = "raised"
            /\ UNCHANGED << failures, i >>
       ELSE /\ failures' = Append(failures, uids[i])
            /\ i' = i + 1
            /\ pc' = "for"
    /\ UNCHANGED nonBatchVars
    /\ UNCHANGED << variant, strict, external, dry_run, uids, k, resources,
                    files, exc, open_fillers, open_serializers,
                    accumulated_files, serialized, filled, enumerated,
                    invoked, outcomes >>

(***************************************************************************)
(* Text.  A str is a sequence of characters; an md5 hex digest is kept as  *)
(* one token, as it holds neither "/" nor a newline.                       *)
(***************************************************************************)
\* ord(c) of the characters the model's paths are made of.
Ord(c) ==
    CASE c = "\n" -> 10
      [] c = "/" -> 47
      [] c = "a" -> 97
      [] c = "b" -> 98
      [] c = "c" -> 99
      [] c = "d" -> 100
      [] c = "p" -> 112
      [] c = "x" -> 120
      [] c = "y" -> 121

\* str.__lt__: lexicographic by code point.
RECURSIVE StrLess(_, _)
StrLess(a, b) ==
    IF a = <<>> THEN b # <<>>
    ELSE IF b = <<>> THEN FALSE
    ELSE IF a[1] = b[1] THEN StrLess(Tail(a), Tail(b))
    ELSE Ord(a[1]) < Ord(b[1])

\* sorted(files), files a set of str.
RECURSIVE Sorted(_)
Sorted(S) ==
    IF S = {} THEN <<>>
    ELSE LET least == CHOOSE x \in S : \A y \in S \ {x} : StrLess(x, y)
         IN  <<least>> \o Sorted(S \ {least})

\* sep.join(strs)
RECURSIVE Join(_, _)
Join(strs, sep) ==
    IF strs = <<>> THEN <<>>
    ELSE IF Len(strs) = 1 THEN strs[1]
    ELSE strs[1] \o sep \o Join(Tail(strs), sep)

\* The non-empty segments of a path between its "/" separators.
RECURSIVE Segments(_)
Segments(path) ==
    IF path = <<>> THEN <<>>
    ELSE IF path[1] = "/" THEN Segments(Tail(path))
    ELSE LET n == IF \E m \in DOMAIN path : path[m] = "/"
                  THEN (CHOOSE m \in DOMAIN path :
                            /\ path[m] = "/"
                            /\ \A j \in 1..(m - 1) : path[j] # "/") - 1
                  ELSE Len(path)
         IN  <<SubSeq(path, 1, n)>> \o Segments(SubSeq(path, n + 1, Len(path)))

\* pathlib.Path(path).parts: the anchor "/" of an absolute path, then its
\* segments.
PathParts(path) ==
    (IF path # <<>> /\ path[1] = "/" THEN << <<"/">> >> ELSE <<>>)
        \o Segments(path)

\* The roots and the external files of the model.
RootA == <<"/", "a">>

RootB == <<"/", "b", "/", "c">>

ExternalRoots == {RootA, RootB}

FileAX == <<"/", "a", "/", "x">>

FileADY == <<"/", "a", "/", "d", "/", "y">>

FileBCX == <<"/", "b", "/", "c", "/", "x">>

ExternalFiles == {FileAX, FileADY, FileBCX}

\* _root_hash: hashlib.md5(root.encode()).hexdigest(), for the model's roots.
RootHash(root) ==
    CASE root = RootA -> "0639767f3e9eaad729b54037a7e2abf5"
      [] root = RootB -> "434cb1197063aa1a8d43ada95f80b57b"

(***************************************************************************)
(* write_external_files_manifest                                           *)
(***************************************************************************)
\* line 252: root_index = len(pathlib.Path(root).parts) - 1
RootIndex(root) == Len(PathParts(root)) - 1

\* line 253: f"external_files_manifest_{root_hash}_{root_index}.txt"
ManifestName(root) ==
    << "external_files_manifest_", RootHash(root), "_", RootIndex(root), ".txt" >>

\* A writer that never puts a separator before what it appends.
NeedsNewlineNever(tell) == FALSE

\* line 257: if file.tell()
NeedsNewline(tell) == tell # 0

\* manager.open("manifest", name, "a"): the content the stream starts after.
OpenAppend(ms, name) == IF name \in DOMAIN ms THEN ms[name] ELSE <<>>

\* lines 254-259: what the manifest holds once the with block is left.
AppendedManifest(old, fileset) ==
    old \o (IF NeedsNewline(Len(old)) THEN <<"\n">> ELSE <<>>)
        \o Join(Sorted(fileset), <<"\n">>)

ManifestInit ==
    /\ manifests = EmptyFiles
    /\ manifest_calls = <<>>

ManifestIdle ==
    /\ manifests = EmptyFiles
    /\ manifest_calls = <<>>

WriteExternalFilesManifest ==
    /\ Len(manifest_calls) < MaxManifestCalls
    /\ \E root \in ExternalRoots, fileset \in SUBSET ExternalFiles :
        LET name == ManifestName(root)
            content == AppendedManifest(OpenAppend(manifests, name), fileset)
        IN  /\ manifests' = [n \in DOMAIN manifests \cup {name} |->
                                IF n = name THEN content ELSE manifests[n]]
            /\ manifest_calls' = Append(manifest_calls,
                                        [root |-> root, files |-> fileset])
    /\ UNCHANGED << batchVars, copyVars, catalogVars, cliVars >>

(***************************************************************************)
(* copy_external_files                                                     *)
(***************************************************************************)
\* pathlib: path / segment
PathJoin(path, segment) == path \o <<"/">> \o segment

\* Whether path lies under root, part by part.
IsUnder(path, root) ==
    /\ Len(path) > Len(root) + 1
    /\ SubSeq(path, 1, Len(root) + 1) = root \o <<"/">>

\* line 286: pathlib.Path(filename).relative_to(root), filename under root.
RelativeTo(filename, root) == SubSeq(filename, Len(root) + 2, Len(filename))

\* The directories above path (path.parent and its parents, "/" left out).
Parents(path) ==
    {SubSeq(path, 1, n - 1) : n \in {m \in 2..Len(path) : path[m] = "/"}}

\* target_directory as the caller gives it: a str or a pathlib.Path.
TargetDirectories ==
    {[type |-> t, path |-> <<"/", "p">>] : t \in {"str", "Path"}}

\* line 287: target_directory / root_hash is defined for a Path only; for a
\* str it raises TypeError.
CanDivide(target) == target.type = "Path"

\* line 287: new_root
NewRoot(target, root) == PathJoin(target.path, <<RootHash(root)>>)

\* line 288: dest = new_root / relative_path
Destination(target, root, filename) ==
    PathJoin(NewRoot(target, root), RelativeTo(filename, root))

\* lines 283-291: the whole call, on filesystem files/directories fsys/ds.
CopyOutcome(fsys, ds, target, root, fileset) ==
    IF fileset = {}
    THEN \* the loop body never ran: new_root is unbound at line 291
         [raised |-> "UnboundLocalError", value |-> EmptyFiles,
          fs |-> fsys, dirs |-> ds]
    ELSE IF ~CanDivide(target)
    THEN \* line 287 raises in the first iteration, before any copy
         [raised |-> "TypeError", value |-> EmptyFiles,
          fs |-> fsys, dirs |-> ds]
    ELSE LET dests == {Destination(target, root, f) : f \in fileset}
             source(d) == CHOOSE f \in fileset : Destination(target, root, f) = d
         IN  [raised |-> "no",
              value |-> [r \in {root} |-> NewRoot(target, root)],
              fs |-> [q \in DOMAIN fsys \cup dests |->
                        IF q \in dests THEN fsys[source(q)] ELSE fsys[q]],
              dirs |-> ds \cup UNION {Parents(d) : d \in dests}]

CopyInit ==
    /\ filesystem = [f \in ExternalFiles |-> <<"content of", f>>]
    /\ dirs = UNION {Parents(f) : f \in ExternalFiles}
    /\ copy_calls = <<>>

CopyIdle ==
    /\ filesystem = EmptyFiles
    /\ dirs = {}
    /\ copy_calls = <<>>

CopyExternalFiles ==
    /\ Len(copy_calls) < MaxCopyCalls
    /\ \E target \in TargetDirectories, root \in ExternalRoots :
        \E fileset \in SUBSET {f \in ExternalFiles : IsUnder(f, root)} :
            LET out == CopyOutcome(filesystem, dirs, target, root, fileset)
            IN  /\ filesystem' = out.fs
                /\ dirs' = out.dirs
                /\ copy_calls' = Append(copy_calls,
                        [target |-> target, root |-> root, files |-> fileset,
                         raised |-> out.raised, value |-> out.value])
    /\ UNCHANGED << batchVars, manifestVars, catalogVars, cliVars >>

(***************************************************************************)
(* write_msgpack_catalog_file / write_jsonl_catalog_file                   *)
(* An optional argument is <<>> for None and <<v>> for the value v; the    *)
(* Manager's catalog.yml is <<>> while absent and <<c>> once c was dumped. *)
(***************************************************************************)
None == <<>>

\* lines 305-309: the catalog write_msgpack_catalog_file dumps.
MsgpackCatalog(paths, root_map) ==
    LET args == IF root_map # None
                THEN [paths |-> paths, root_map |-> root_map[1]]
                ELSE [paths |-> paths]
        source == [driver |-> "bluesky-msgpack-catalog", args |-> args]
    IN  [sources |-> [catalog |-> source]]

\* lines 329-333: the catalog write_jsonl_catalog_file dumps.
JsonlCatalog(paths, root_map) ==
    LET args == IF root_map # None
                THEN [paths |-> paths, root_map |-> root_map[1]]
                ELSE [paths |-> paths]
        source == [driver |-> "bluesky-jsonl-catalog", args |-> args]
    IN  [sources |-> [catalog |-> source]]

\* An open that truncates an existing file (mode "w").
OpenExclusiveFailsNever(file) == FALSE

\* lines 311, 335: manager.open("catalog_file", "catalog.yml", "xt") raises
\* FileExistsError when the file exists.
OpenExclusiveFails(file) == file # <<>>

CatalogPaths == { <<"./*.msgpack">>, <<"./*.jsonl">> }

RootMaps ==
    { None,
      << EmptyFiles >>,
      << [r \in {"/a"} |-> "/a"] >>,
      << [r \in {"/a"} |-> "external_files/0639767f3e9eaad729b54037a7e2abf5"] >> }

\* A catalog.yml left by an earlier export into the same directory.
EarlierCatalog == MsgpackCatalog(<<"./*.msgpack">>, None)

CatalogInit ==
    /\ catalog_file \in { <<>>, << EarlierCatalog >> }
    /\ catalog_calls = <<>>

CatalogIdle ==
    /\ catalog_file = <<>>
    /\ catalog_calls = <<>>

CatalogCall(writer, paths, root_map, raised) ==
    [writer |-> writer, paths |-> paths, root_map |-> root_map,
     raised |-> raised, before |-> catalog_file]

WriteMsgpackCatalogFile ==
    /\ Len(catalog_calls) < MaxCatalogCalls
    /\ \E paths \in CatalogPaths, root_map \in RootMaps :
        IF OpenExclusiveFails(catalog_file)
        THEN /\ UNCHANGED catalog_file
             /\ catalog_calls' = Append(catalog_calls,
                    CatalogCall("msgpack", paths, root_map, TRUE))
        ELSE /\ catalog_file' = << MsgpackCatalog(paths, root_map) >>
             /\ catalog_calls' = Append(catalog_calls,
                    CatalogCall("msgpack", paths, root_map, FALSE))
    /\ UNCHANGED << batchVars, manifestVars, copyVars, cliVars >>

WriteJsonlCatalogFile ==
    /\ Len(catalog_calls) < MaxCatalogCalls
    /\ \E paths \in CatalogPaths, root_map \in RootMaps :
        IF OpenExclusiveFails(catalog_file)
        THEN /\ UNCHANGED catalog_file
             /\ catalog_calls' = Append(catalog_calls,
                    CatalogCall("jsonl", paths, root_map, TRUE))
        ELSE /\ catalog_file' = << JsonlCatalog(paths, root_map) >>
             /\ catalog_calls' = Append(catalog_calls,
                    CatalogCall("jsonl", paths, root_map, FALSE))
    /\ UNCHANGED << batchVars, manifestVars, copyVars, cliVars >>

(***************************************************************************)
(* commandline/pack.py: main()                                             *)
(***************************************************************************)
\* lines 12-20: the names pack.py imports from .._pack
ImportedFromPack ==
    { "copy_external_files", "export_catalog", "export_uids",
      "write_documents_manifest", "write_jsonl_catalog_file",
      "write_msgpack_catalog_file", "write_external_files_manifest" }

\* The names _pack.py binds at module level.
PackNames ==
    { "logger", "print", "export_uids", "export_catalog", "export_run",
      "_root_hash", "write_external_files_manifest", "copy_external_files",
      "write_msgpack_catalog_file", "write_jsonl_catalog_file" }

\* lines 188-193: the external mode main() passes on.
MainExternal(a) ==
    IF a.external_opt = "ignore" THEN "ignore"
    ELSE IF a.external_opt = "fill" THEN "fill"
    ELSE "None"

\* An uncaught exception: traceback, exit code 1.  The file of failed uids
\* (lines 322-327) is written only at the end of the try block.
Crash(error, exported) ==
    [code |-> 1, error |-> error, exported |-> exported, descriptor |-> <<>>,
     failures_file |-> FALSE]

\* sys.exit(code) / parser.error
Exit(code) ==
    [code |-> code, error |-> "SystemExit", exported |-> FALSE,
     descriptor |-> <<>>, failures_file |-> FALSE]

\* lines 198-330, once the module's imports have succeeded.
MainBody(a) ==
    IF a.handler_registry /\ a.external_opt # "fill"
    THEN Crash("NotImplementedError", FALSE)              \* lines 198-206
    ELSE IF a.select \in {"all", "query"}
    THEN IF ~a.nonempty
         THEN Exit(1)                                     \* lines 250-252
         ELSE IF a.strict /\ a.run_fails
         THEN \* export_catalog re-raises the run's exception
              \* (_pack.py lines 158-159)
              Crash("Exception", TRUE)
         ELSE \* line 253 unpacks three names from the pair that
              \* export_catalog returns (_pack.py line 163)
              Crash("ValueError", TRUE)
    ELSE IF a.select = "uids"
    THEN IF ~a.nonempty
         THEN Exit(1)                                     \* lines 271-273
         ELSE \* the call of export_uids (lines 274-283) is inside the
              \* "if not uids" block, after sys.exit: it is skipped
              IF ~a.no_documents
              THEN Crash("UnboundLocalError", FALSE)      \* line 290: artifacts
              ELSE IF MainExternal(a) = "None"
              THEN Crash("UnboundLocalError", FALSE)      \* lines 299, 311
              ELSE \* lines 317, 320 pass four arguments to the writers,
                   \* which take three (_pack.py lines 294, 315)
                   Crash("TypeError", FALSE)
    ELSE Exit(2)                                          \* lines 285-288

\* Running the module: its imports (lines 9-20), then main().
MainOutcome(a) ==
    IF ImportedFromPack \subseteq PackNames
    THEN MainBody(a)
    ELSE Crash("ImportError", FALSE)

CliArguments ==
    [select : {"all", "query", "uids", "none"},
     external_opt : {"default", "copy", "fill", "ignore"},
     format : {"msgpack", "jsonl"},
     no_documents : BOOLEAN,
     strict : BOOLEAN,
     handler_registry : BOOLEAN,
     nonempty : BOOLEAN,
     run_fails : BOOLEAN]

NotRun ==
    [code |-> 0, error |-> "", exported |-> FALSE, descriptor |-> <<>>,
     failures_file |-> FALSE]

CliInit ==
    /\ cli \in CliArguments
    /\ cli_pc = "start"
    /\ cli_out = NotRun

CliIdle ==
    /\ cli = [select |-> "none", external_opt |-> "default",
              format |-> "msgpack", no_documents |-> FALSE, strict |-> FALSE,
              handler_registry |-> FALSE, nonempty |-> FALSE,
              run_fails |-> FALSE]
    /\ cli_pc = "idle"
    /\ cli_out = NotRun

Main ==
    /\ cli_pc = "start"
    /\ cli_out' = MainOutcome(cli)
    /\ cli_pc' = "exited"
    /\ UNCHANGED cli
    /\ UNCHANGED << batchVars, manifestVars, copyVars, catalogVars >>

(***************************************************************************)
(* Specifications.                                                         *)
(***************************************************************************)
BatchIdle ==
    /\ variant = "uids"
    /\ strict = FALSE
    /\ external = "None"
    /\ dry_run = FALSE
    /\ uids = <<>>
    /\ i = 1
    /\ pc = "idle"
    /\ k = 0
    /\ resources = <<>>
    /\ files = EmptyFiles
    /\ exc = FALSE
    /\ open_fillers = {}
    /\ open_serializers = {}
    /\ accumulated_files = EmptyFiles
    /\ failures = <<>>
    /\ serialized = <<>>
    /\ filled = 0
    /\ enumerated = <<>>
    /\ invoked = <<>>
    /\ outcomes = <<>>

\* One batch export: export_uids or export_catalog over a list of runs.
Init == BatchInit /\ ManifestIdle /\ CopyIdle /\ CatalogIdle /\ CliIdle

Next ==
    \/ Return
    \/ LookupFails
    \/ EnterExportRun
    \/ LoopEnds
    \/ LoopBody
    \/ LeaveSerializer
    \/ EnumerateFiles
    \/ LeaveFiller
    \/ Merge
    \/ Except

Spec == Init /\ [][Next]_vars

\* Successive calls of write_external_files_manifest on one Manager.
InitManifest == BatchIdle /\ ManifestInit /\ CopyIdle /\ CatalogIdle /\ CliIdle

NextManifest == WriteExternalFilesManifest

SpecManifest == InitManifest /\ [][NextManifest]_vars

\* Successive calls of copy_external_files on one filesystem.
InitCopy == BatchIdle /\ ManifestIdle /\ CopyInit /\ CatalogIdle /\ CliIdle

NextCopy == CopyExternalFiles

SpecCopy == InitCopy /\ [][NextCopy]_vars

\* Successive calls of the catalog descriptor writers on one Manager.
InitCatalog == BatchIdle /\ ManifestIdle /\ CopyIdle /\ CatalogInit /\ CliIdle

NextCatalog ==
    \/ WriteMsgpackCatalogFile
    \/ WriteJsonlCatalogFile

SpecCatalog == InitCatalog /\ [][NextCatalog]_vars

\* One run of the command line program.
InitCli == BatchIdle /\ ManifestIdle /\ CopyIdle /\ CatalogIdle /\ CliInit

NextCli == Main

SpecCli == InitCli /\ [][NextCli]_vars

(***************************************************************************)
(* Properties of the batch exporters and of export_run.                    *)
(***************************************************************************)
Range(s) == {s[n] : n \in DOMAIN s}

\* The uids of the attempts that raised, in the order of the attempts.
RECURSIVE RaisedUids(_)
RaisedUids(os) ==
    IF os = <<>> THEN <<>>
    ELSE LET rest == RaisedUids(SubSeq(os, 1, Len(os) - 1))
             last == os[Len(os)]
         IN  IF last.raised THEN Append(rest, last.uid) ELSE rest

\* Per root, the union of what export_run returned for the attempts that
\* did not raise.
UnionOfReturned(os) ==
    LET ok == {n \in DOMAIN os : ~os[n].raised}
        roots == UNION {DOMAIN os[n].files : n \in ok}
    IN  [r \in roots |->
            UNION {os[n].files[r] : n \in {m \in ok : r \in DOMAIN os[m].files}}]

\* What the Serializer of invocation idx must have received: the run's
\* documents, in order, filled when external == "fill".
ExpectedSerialized(uid) ==
    [n \in 1..Len(Canonical(uid)) |->
        IF external = "fill"
        THEN [Canonical(uid)[n] EXCEPT !.filled = TRUE]
        ELSE Canonical(uid)[n]]

SerializedBy(idx) ==
    LET mine == SelectSeq(serialized, LAMBDA e : e.idx = idx)
    IN  [n \in 1..Len(mine) |-> mine[n].doc]

\* Per root of a resource document of the run, the union of get_file_list
\* over the resource documents with that root.
ExpectedFiles(uid) ==
    LET docs == Canonical(uid)
        rs == {n \in 1..Len(docs) : docs[n].name = "resource"}
    IN  [r \in {docs[n].root : n \in rs} |->
            UNION {GetFileList(docs[n]) : n \in {m \in rs : docs[m].root = r}}]

\* C1: with strict=False no exception escapes the batch call; when it returns,
\* every run was attempted once, in order, failures is exactly the uids of the
\* attempts that raised, in order, and accumulated_files is, per root, the
\* union of the mappings export_run returned for the attempts that did not.
C1_NonStrictBatch ==
    ~strict =>
        /\ pc # "raised"
        /\ pc = "returned" =>
            /\ Len(outcomes) = Len(uids)
            /\ \A n \in DOMAIN outcomes : outcomes[n].idx = n
            /\ failures = RaisedUids(outcomes)
            /\ accumulated_files = UnionOfReturned(outcomes)

\* A non-strict batch of three runs returned; the second one raised inside
\* export_run, the first and the third were merged.
C1_Witness ==
    /\ ~strict
    /\ pc = "returned"
    /\ Len(uids) = 3
    /\ uids[2] \in CatalogUids
    /\ Len(outcomes) = 3
    /\ ~outcomes[1].raised /\ outcomes[2].raised /\ ~outcomes[3].raised
    /\ failures = << uids[2] >>
    /\ \E r \in DOMAIN accumulated_files : accumulated_files[r] # {}

\* C2: with strict=True, when the export of run K raises the exception
\* escapes the batch call: no uid is ever put into failures, export_run is
\* never invoked for a run after K, and every run before K was exported in
\* full (it returned, its Serializer is closed and, unless dry_run, it
\* received every document of the run).
C2_StrictBatch ==
    strict =>
        /\ failures = <<>>
        /\ \A n \in DOMAIN outcomes : outcomes[n].raised => n = Len(outcomes)
        /\ (outcomes # <<>> /\ outcomes[Len(outcomes)].raised) =>
            /\ pc \in {"except", "raised"}
            /\ Len(outcomes) = i
            /\ \A n \in DOMAIN invoked : invoked[n] <= i
            /\ \A n \in 1..(i - 1) :
                /\ ~outcomes[n].raised
                /\ n \notin open_serializers
                /\ ~dry_run => SerializedBy(n) = ExpectedSerialized(uids[n])
        /\ pc = "raised" => (outcomes # <<>> /\ outcomes[Len(outcomes)].raised)

\* A strict batch of three runs: the first was serialized in full, the second
\* raised inside export_run and the exception escaped.
C2_Witness ==
    /\ strict
    /\ pc = "raised"
    /\ Len(uids) = 3
    /\ i = 2
    /\ uids[2] \in CatalogUids
    /\ ~dry_run
    /\ SerializedBy(1) = ExpectedSerialized(uids[1])
    /\ invoked = << 1, 2 >>

\* C3: at most one Filler and one Serializer are open at any time, they are
\* the ones acquired by the current invocation of export_run, and both have
\* been released whenever the batch exporter is outside export_run: when it
\* merges the run's files, handles its exception, starts the next run,
\* returns or raises.
C3_ScopedResources ==
    /\ Cardinality(open_serializers) <= 1
    /\ Cardinality(open_fillers) <= 1
    /\ pc \in {"iter", "exit_serializer"} =>
            (open_fillers = {i} /\ open_serializers = {i})
    /\ pc \in {"enum", "exit_filler"} =>
            (open_fillers = {i} /\ open_serializers = {})
    /\ pc \in {"for", "merge", "except", "returned", "raised"} =>
            (open_fillers = {} /\ open_serializers = {})
    /\ \A m, n \in DOMAIN invoked : m < n => invoked[m] < invoked[n]

\* The second run of a batch raised after its Serializer had received a
\* document, and the batch exporter is about to handle the exception.
C3_Witness ==
    /\ pc = "except"
    /\ i = 2
    /\ uids[2] \in CatalogUids
    /\ SerializedBy(2) # <<>>
    /\ SerializedBy(2) # ExpectedSerialized(uids[2])
    /\ open_fillers = {} /\ open_serializers = {}

\* C4: with dry_run=True the Serializer is never called, and with external
\* None export_run returns, whatever dry_run is, the mapping from each root
\* of a resource document of the run to the union of get_file_list over the
\* resource documents with that root.
C4_DryRun ==
    /\ dry_run => serialized = <<>>
    /\ (pc = "merge" /\ external = "None") => files = ExpectedFiles(uids[i])

\* A dry run of "abc" with external None returned its two-resource, one-root
\* mapping.
C4_Witness ==
    /\ dry_run
    /\ external = "None"
    /\ pc = "merge"
    /\ uids[i] = "abc"
    /\ files = [r \in {"/data/a"} |->
                    {"/data/a/1.h5", "/data/a/2.h5", "/data/a/3.h5"}]
    /\ serialized = <<>>

\* C5: unless external is None get_file_list is never called and export_run
\* returns an empty mapping; get_file_list is called for a run only with
\* external None, after the run's document iteration has completed and its
\* Serializer has been closed.
C5_EnumerationOnlyForNone ==
    /\ external # "None" =>
        /\ enumerated = <<>>
        /\ pc = "merge" => files = EmptyFiles
        /\ \A n \in DOMAIN outcomes : outcomes[n].files = EmptyFiles
    /\ pc = "enum" =>
        /\ external = "None"
        /\ k > Len(Canonical(uids[i]))
        /\ i \notin open_serializers
    /\ \A n \in DOMAIN enumerated :
        \/ enumerated[n].idx < i
        \/ enumerated[n].idx = i /\ pc \in {"exit_filler", "merge", "except", "raised"}

\* export_run of "abc", which holds resource documents, returned the empty
\* mapping under external == "fill".
C5_Witness ==
    /\ external = "fill"
    /\ pc = "merge"
    /\ uids[i] = "abc"
    /\ Len(resources) = 2
    /\ files = EmptyFiles
    /\ enumerated = <<>>

(***************************************************************************)
(* Properties of write_external_files_manifest.                            *)
(***************************************************************************)
Newline == <<"\n">>

\* The lines of a text, empty lines left out.
RECURSIVE NonEmptyLines(_)
NonEmptyLines(text) ==
    IF text = <<>> THEN <<>>
    ELSE IF text[1] = "\n" THEN NonEmptyLines(Tail(text))
    ELSE LET n == IF \E m \in DOMAIN text : text[m] = "\n"
                  THEN (CHOOSE m \in DOMAIN text :
                            /\ text[m] = "\n"
                            /\ \A j \in 1..(m - 1) : text[j] # "\n") - 1
                  ELSE Len(text)
         IN  <<SubSeq(text, 1, n)>> \o NonEmptyLines(SubSeq(text, n + 1, Len(text)))

Ascending(strs) ==
    \A m, n \in DOMAIN strs : m < n => StrLess(strs[m], strs[n])

CallsFor(root) == SelectSeq(manifest_calls, LAMBDA c : c.root = root)

\* C6 as stated: after two calls for a root, with file sets F1 then F2, the
\* manifest of the root is the newline-joined sorted(F1), one newline, then
\* the newline-joined sorted(F2), for all F1 and F2.
C6_AsStated ==
    \A root \in ExternalRoots :
        Len(CallsFor(root)) = 2 =>
            manifests[ManifestName(root)] =
                Join(Sorted(CallsFor(root)[1].files), Newline) \o Newline
                    \o Join(Sorted(CallsFor(root)[2].files), Newline)

\* C6 amended: the same when F1 is not empty; when F1 is empty the manifest
\* is the newline-joined sorted(F2) alone, with no newline before it.  In
\* both cases the lines of the manifest are the entries of F1, ascending,
\* followed by the entries of F2, ascending: nothing lost, nothing joined.
C6_AppendedManifest ==
    \A root \in ExternalRoots :
        Len(CallsFor(root)) = 2 =>
            LET F1 == CallsFor(root)[1].files
                F2 == CallsFor(root)[2].files
                content == manifests[ManifestName(root)]
                lines == NonEmptyLines(content)
                n1 == Cardinality(F1)
            IN  /\ content =
                      IF F1 = {} THEN Join(Sorted(F2), Newline)
                      ELSE Join(Sorted(F1), Newline) \o Newline
                               \o Join(Sorted(F2), Newline)
                /\ Len(lines) = n1 + Cardinality(F2)
                /\ {lines[n] : n \in 1..n1} = F1
                /\ {lines[n] : n \in (n1 + 1)..Len(lines)} = F2
                /\ Ascending(SubSeq(lines, 1, n1))
                /\ Ascending(SubSeq(lines, n1 + 1, Len(lines)))

\* Two calls for root /a, the second one holding an entry that sorts before
\* the last entry of the first.
C6_Witness ==
    /\ Len(CallsFor(RootA)) = 2
    /\ CallsFor(RootA)[1].files = {FileAX, FileBCX}
    /\ CallsFor(RootA)[2].files = {FileADY, FileAX}
    /\ manifests[ManifestName(RootA)] =
          FileAX \o Newline \o FileBCX \o Newline \o FileADY \o Newline \o FileAX

(***************************************************************************)
(* Properties of copy_external_files.                                      *)
(***************************************************************************)
\* C7: every call, for a target directory given as a str or as a Path, returns
\* {root: target_directory/root_hash(root)}, and afterwards every input file
\* is at target_directory/root_hash(root)/(its path relative to root) with
\* the content of the original.
C7_CopiesAndReturnsNewRoot ==
    \A n \in DOMAIN copy_calls :
        LET c == copy_calls[n]
            new_root == c.target.path \o <<"/", RootHash(c.root)>>
        IN  /\ c.raised = "no"
            /\ c.value = [r \in {c.root} |-> new_root]
            /\ \A f \in c.files :
                LET dest == new_root \o <<"/">>
                                \o SubSeq(f, Len(c.root) + 2, Len(f))
                IN  /\ dest \in DOMAIN filesystem
                    /\ filesystem[dest] = filesystem[f]

(***************************************************************************)
(* Properties of the catalog descriptor writers.                           *)
(***************************************************************************)
DriverOf(writer) ==
    IF writer = "msgpack" THEN "bluesky-msgpack-catalog"
    ELSE "bluesky-jsonl-catalog"

\* C8: of the calls made for one target, whichever writers they are, only a
\* call that finds no catalog.yml writes one; every later call raises
\* FileExistsError and leaves catalog.yml as the first call wrote it.
C8_ExclusiveCreate ==
    \A n \in DOMAIN catalog_calls :
        LET c == catalog_calls[n]
            after == IF n < Len(catalog_calls)
                     THEN catalog_calls[n + 1].before
                     ELSE catalog_file
        IN  /\ n >= 2 => (c.raised /\ c.before # <<>>)
            /\ c.raised => after = c.before
            /\ ~c.raised =>
                /\ c.before = <<>>
                /\ Len(catalog_file) = 1
                /\ catalog_file[1].sources.catalog.driver = DriverOf(c.writer)
                /\ catalog_file[1].sources.catalog.args.paths = c.paths

\* write_msgpack_catalog_file wrote catalog.yml; write_jsonl_catalog_file,
\* called next with other paths and another root map, raised and
\* catalog.yml is still the msgpack descriptor.
C8_Witness ==
    /\ Len(catalog_calls) = 2
    /\ catalog_calls[1].writer = "msgpack" /\ ~catalog_calls[1].raised
    /\ catalog_calls[2].writer = "jsonl" /\ catalog_calls[2].raised
    /\ catalog_calls[1].paths # catalog_calls[2].paths
    /\ catalog_calls[1].root_map # catalog_calls[2].root_map
    /\ catalog_file = << MsgpackCatalog(catalog_calls[1].paths,
                                        catalog_calls[1].root_map) >>

(***************************************************************************)
(* Properties of the command line program.                                 *)
(***************************************************************************)
\* The option combinations of test_pack_smoke that export: --all or
\* --query '{}', alone or with one of --no-documents, --strict,
\* --ignore-external, --copy-external, --fill-external (the last with or
\* without --handler-registry), in either format, on a non-empty catalog.
SmokeOptions(a) ==
    /\ a.select \in {"all", "query"}
    /\ a.nonempty
    /\ a.handler_registry => a.external_opt = "fill"
    /\ Cardinality({o \in {"no_documents", "strict", "external"} :
            \/ o = "no_documents" /\ a.no_documents
            \/ o = "strict" /\ a.strict
            \/ o = "external" /\ a.external_opt # "default"}) <= 1

\* C9: the descriptor either writer dumps is {sources: {catalog: {driver,
\* args: {paths, root_map?}}}}, with root_map in args exactly when a non-null
\* root map was supplied (then equal to it), the two writers differing in the
\* driver alone; and a pack the command line program makes with external
\* data filled or ignored gets a descriptor without root_map.
C9_DescriptorRootMap ==
    /\ \A paths \in CatalogPaths, root_map \in RootMaps :
        LET m == MsgpackCatalog(paths, root_map).sources.catalog
            j == JsonlCatalog(paths, root_map).sources.catalog
        IN  /\ DOMAIN MsgpackCatalog(paths, root_map) = {"sources"}
            /\ DOMAIN MsgpackCatalog(paths, root_map).sources = {"catalog"}
            /\ DOMAIN m = {"driver", "args"}
            /\ m.args.paths = paths
            /\ ("root_map" \in DOMAIN m.args) <=> (root_map # None)
            /\ root_map # None => m.args.root_map = root_map[1]
            /\ DOMAIN m.args \subseteq {"paths", "root_map"}
            /\ j.args = m.args
            /\ m.driver = "bluesky-msgpack-catalog"
            /\ j.driver = "bluesky-jsonl-catalog"
    /\ (cli_pc = "exited" /\ SmokeOptions(cli) /\ MainExternal(cli) # "None") =>
        /\ cli_out.descriptor # <<>>
        /\ \A n \in DOMAIN cli_out.descriptor :
            "root_map" \notin DOMAIN cli_out.descriptor[n].sources.catalog.args

\* C10: run with an option combination of the smoke test on a non-empty
\* catalog, the program exports, writes the catalog descriptor and exits
\* with code 0.
C10_SmokeExitsZero ==
    (cli_pc = "exited" /\ SmokeOptions(cli)) =>
        /\ cli_out.code = 0
        /\ cli_out.exported
        /\ cli_out.descriptor # <<>>

\* C11: in --uids mode, once the uids read from the files are found to be a
\* non-empty list, export_uids is called on it; an empty list ends the
\* program with exit code 1 and no export.
C11_UidsModeExports ==
    (/\ cli_pc = "exited"
     /\ cli.select = "uids"
     /\ cli.handler_registry => cli.external_opt = "fill") =>
        /\ cli.nonempty => cli_out.exported
        /\ ~cli.nonempty => (cli_out.code = 1 /\ ~cli_out.exported)

(***************************************************************************)
(* Further properties of the batch exporters and of export_run.            *)
(***************************************************************************)
\* C12: in every step of a batch export, whether a run is being exported,
\* merged or recorded as failed, every root of accumulated_files stays in it
\* and its file set is a superset of what it was: nothing is removed or
\* replaced.
C12_FileSetsOnlyGrow ==
    [][\A r \in DOMAIN accumulated_files :
            /\ r \in DOMAIN accumulated_files'
            /\ accumulated_files[r] \subseteq accumulated_files'[r]]_vars

\* "abc" was merged, the second run failed, then "def" was merged: root
\* /data/a grew from three files to four and root /data/b was added.
C12_Witness ==
    /\ uids = << "abc", "def", "def" >>
    /\ pc = "for"
    /\ i = 4
    /\ ~outcomes[1].raised /\ outcomes[2].raised /\ ~outcomes[3].raised
    /\ failures = << "def" >>
    /\ accumulated_files = [r \in {"/data/a", "/data/b"} |->
            IF r = "/data/a"
            THEN {"/data/a/1.h5", "/data/a/2.h5", "/data/a/3.h5", "/data/a/4.h5"}
            ELSE {}]

\* C13: a query with an empty result set ends the program with exit code 1
\* before any export; when a run fails to export in non-strict mode the
\* program ends with exit code 1 after the export, with the catalog
\* descriptor written and the failing uids written to a temporary file.
C13_ExitOneAfterArtifacts ==
    (/\ cli_pc = "exited"
     /\ cli.select \in {"all", "query"}
     /\ cli.handler_registry => cli.external_opt = "fill") =>
        /\ ~cli.nonempty => (cli_out.code = 1 /\ ~cli_out.exported)
        /\ (cli.nonempty /\ cli.run_fails /\ ~cli.strict) =>
                /\ cli_out.code = 1
                /\ cli_out.exported
                /\ cli_out.descriptor # <<>>
                /\ cli_out.failures_file

\* The resource documents among the first n documents of a run (all of them
\* when the run has fewer), as run.canonical(fill="no") yields them.
ResourcesAmong(uid, n) ==
    LET docs == Canonical(uid)
        m == IF n > Len(docs) THEN Len(docs) ELSE n
    IN  SelectSeq(SubSeq(docs, 1, m), LAMBDA d : d.name = "resource")

\* C14: within export_run with dry_run=False the Serializer receives the
\* documents of run.canonical(fill="no"), once each and in order (the first
\* k - 1 of them while the loop is at document k, all of them when export_run
\* returns); a document reaches the Serializer filled exactly when external
\* is "fill", and in every other mode the Filler is never called and the
\* document is serialized as yielded; in every mode every resource document
\* the loop has taken is recorded, in order and as yielded (unfilled).
C14_SerializedInOrder ==
    /\ (~dry_run /\ pc \in {"iter", "exit_serializer", "enum", "exit_filler",
                            "merge"}) =>
            /\ Len(SerializedBy(i)) = k - 1
            /\ \A n \in 1..(k - 1) :
                    SerializedBy(i)[n] =
                        [Canonical(uids[i])[n] EXCEPT
                            !.filled = (external = "fill")]
    /\ (~dry_run /\ pc = "merge") =>
            Len(SerializedBy(i)) = Len(Canonical(uids[i]))
    /\ external # "fill" => filled = 0
    /\ external = "fill" => filled >= Len(serialized)
    /\ pc = "iter" => resources = ResourcesAmong(uids[i], k - 1)
    /\ (pc \in {"exit_serializer", "exit_filler"} /\ exc) =>
            resources \in {ResourcesAmong(uids[i], k - 1),
                           ResourcesAmong(uids[i], k)}
    /\ (\/ pc \in {"enum", "merge"}
        \/ pc \in {"exit_serializer", "exit_filler"} /\ ~exc) =>
            resources = ResourcesAmong(uids[i], Len(Canonical(uids[i])))

\* export_run has returned for run "abc" in fill mode: its five documents
\* were serialized filled, and its two resource documents were recorded
\* unfilled.
C14_Witness ==
    /\ pc = "merge"
    /\ ~dry_run
    /\ external = "fill"
    /\ uids[i] = "abc"
    /\ Len(SerializedBy(i)) = 5
    /\ \A n \in 1..5 : SerializedBy(i)[n].filled
    /\ Len(resources) = 2
    /\ \A n \in 1..2 : resources[n].name = "resource" /\ ~resources[n].filled

====
